---- MODULE Spec2Model ----
(***************************************************************************)
(* A model of src/map.js: the minute buckets of the bike trips, the        *)
(* windowed query filterByMinute, the per-station aggregation              *)
(* computeStationTraffic, and the map 'load' handler that loads the        *)
(* stations and the trips, draws the circles and serves the time slider.   *)
(***************************************************************************)
EXTENDS Integers, Sequences, FiniteSets, TLC

VARIABLES
    pc,                  \* position of the map 'load' handler
    loadedStations,      \* the station records as d3.json delivered them
    originalStations,    \* the station objects of jsonData.data.stations (line 150)
    departuresByMinute,  \* line 33
    arrivalsByMinute,    \* line 34
    rows,                \* the CSV rows handed to the row callback so far
    filteredStations,    \* what the last computeStationTraffic call returned
    timeFilter,          \* the filter of the last query
    radiusDomain,        \* radiusScale.domain()
    radiusRange,         \* radiusScale.range()
    circles,             \* the r attribute of every drawn circle
    sliderBound,         \* line 285 has run
    queried,             \* computeStationTraffic / filterByMinute has been called
    loadFailed,          \* d3.json or d3.csv has rejected
    filtered             \* result of a filterByMinute call (query specification)

vars == <<pc, loadedStations, originalStations, departuresByMinute,
          arrivalsByMinute, rows, filteredStations, timeFilter,
          radiusDomain, radiusRange, circles, sliderBound, queried,
          loadFailed, filtered>>

---------------------------------------------------------------------------
(* Program constants *)

MinutesPerDay == 1440
HalfWindow == 60
NoFilter == -1
RangeMaxAnyTime == 25
RangeMinFiltered == 3
RangeMaxFiltered == 50

\* NaN / undefined: what Invalid Date's getHours() and d3.max of an empty
\* array give; never an index of the bucket arrays.
NaN == -1

(* Bounds of the model *)

MaxTrips == 3          \* rows of the trip CSV
MaxBucketTrips == 3    \* trips in the buckets of the query specification
Precision == 100       \* radii are kept in 1/Precision pixels


---------------------------------------------------------------------------
(* Inputs *)

\* A timestamp cell of the CSV is <<h, m, s>> for a readable date-time text
\* and << >> for a text new Date() cannot read.

RawRow(from, to, startedAt, endedAt) ==
    [start_station_id |-> from, end_station_id |-> to,
     started_at |-> startedAt, ended_at |-> endedAt]

RowPool ==
    { RawRow("A", "B", <<0, 5, 10>>, <<0, 10, 0>>),
      RawRow("B", "A", <<23, 58, 30>>, <<0, 2, 0>>),
      RawRow("A", "A", <<23, 50, 0>>, <<0, 50, 59>>),
      RawRow("B", "Z", <<3, 20, 0>>, <<3, 20, 59>>),
      RawRow("A", "B", << >>, <<0, 10, 0>>),
      RawRow("A", "B", <<0, 5, 10>>, << >>) }

Readable(raw) == Len(raw) = 3

Station(name, lon, lat) == [short_name |-> name, lon |-> lon, lat |-> lat]

StationFeeds ==
    { << >>,
      << Station("A", 0, 0) >>,
      << Station("A", 0, 0), Station("B", 1, 1) >>,
      << Station("B", 1, 1), Station("C", 2, 2), Station("A", 0, 0) >> }

SliderValues == { NoFilter, 0, 30, 140, 260, 1380 }

---------------------------------------------------------------------------
(* JavaScript and d3 helpers, as map.js uses them *)

\* new Date(text)
NewDate(raw) ==
    IF Readable(raw)
    THEN [valid |-> TRUE, hours |-> raw[1], minutes |-> raw[2], seconds |-> raw[3]]
    ELSE [valid |-> FALSE, hours |-> NaN, minutes |-> NaN, seconds |-> NaN]

\* Array.from({ length: 1440 }, () => []); slot m of the array is element m + 1
EmptyBuckets == [i \in 1 .. MinutesPerDay |-> << >>]

\* array.slice(from, to) and array.slice(from)
Slice(array, from, to) == SubSeq(array, from + 1, to)
SliceFrom(array, from) == SubSeq(array, from + 1, Len(array))

\* array.flat() on an array of arrays: the inner arrays end to end, in
\* index order (the empty ones add nothing)
RECURSIVE Concat(_, _)
Concat(array, indices) ==
    IF indices = {} THEN << >>
    ELSE LET first == CHOOSE i \in indices : \A j \in indices : i <= j
         IN  array[first] \o Concat(array, indices \ {first})
Flat(array) == Concat(array, { i \in DOMAIN array : array[i] # << >> })

\* d3.rollup(values, v => v.length, d => d[key]): a Map from key to count
Rollup(values, key) ==
    [k \in { values[i][key] : i \in DOMAIN values } |->
        Cardinality({ i \in DOMAIN values : values[i][key] = k })]

\* map.get(id) ?? 0
GetOrZero(map, id) == IF id \in DOMAIN map THEN map[id] ELSE 0

\* d3.max(array, d => d.totalTraffic): undefined for an empty array
D3Max(array) ==
    IF Len(array) = 0 THEN NaN
    ELSE CHOOSE v \in { array[i].totalTraffic : i \in DOMAIN array } :
            \A i \in DOMAIN array : array[i].totalTraffic <= v

\* floor of the square root
RECURSIVE SqrtBetween(_, _, _)
SqrtBetween(n, lo, hi) ==
    IF lo >= hi THEN lo
    ELSE LET mid == (lo + hi + 1) \div 2
         IN  IF mid * mid <= n THEN SqrtBetween(n, mid, hi)
             ELSE SqrtBetween(n, lo, mid - 1)
ISqrt(n) == SqrtBetween(n, 0, IF n < 46340 THEN n ELSE 46340)

---------------------------------------------------------------------------
(* The functions of map.js *)

minutesSinceMidnight(date) ==
    IF date.valid THEN date.hours * 60 + date.minutes ELSE NaN

\* Variant: the window takes slot minute + 60 too (an inclusive upper end).
filterByMinuteInclusive(tripsByMinute, minute) ==
    IF minute = NoFilter THEN Flat(tripsByMinute)
    ELSE LET minMinute == (minute - HalfWindow + MinutesPerDay) % MinutesPerDay
             maxMinute == (minute + HalfWindow) % MinutesPerDay
         IN  IF minMinute > maxMinute
             THEN Flat(SliceFrom(tripsByMinute, minMinute)
                       \o Slice(tripsByMinute, 0, maxMinute + 1))
             ELSE Flat(Slice(tripsByMinute, minMinute, maxMinute + 1))

\* Variant: the two slices are joined whether or not the window straddles
\* midnight.
filterByMinuteAlwaysJoined(tripsByMinute, minute) ==
    IF minute = NoFilter THEN Flat(tripsByMinute)
    ELSE LET minMinute == (minute - HalfWindow + MinutesPerDay) % MinutesPerDay
             maxMinute == (minute + HalfWindow) % MinutesPerDay
         IN  Flat(SliceFrom(tripsByMinute, minMinute)
                  \o Slice(tripsByMinute, 0, maxMinute))

filterByMinute(tripsByMinute, minute) ==
    IF minute = NoFilter THEN Flat(tripsByMinute)
    ELSE LET minMinute == (minute - HalfWindow + MinutesPerDay) % MinutesPerDay
             maxMinute == (minute + HalfWindow) % MinutesPerDay
         IN  IF minMinute > maxMinute
             THEN LET beforeMidnight == SliceFrom(tripsByMinute, minMinute)
                      afterMidnight == Slice(tripsByMinute, 0, maxMinute)
                  IN  Flat(beforeMidnight \o afterMidnight)
             ELSE Flat(Slice(tripsByMinute, minMinute, maxMinute))

\* Variant: totalTraffic forgets the departures.
UpdateStationArrivalsOnly(station, departures, arrivals) ==
    LET id == station.short_name
        arr == GetOrZero(arrivals, id)
        dep == GetOrZero(departures, id)
    IN  [f \in DOMAIN station \cup {"arrivals", "departures", "totalTraffic"} |->
            CASE f = "arrivals" -> arr
              [] f = "departures" -> dep
              [] f = "totalTraffic" -> arr
              [] OTHER -> station[f]]

\* Variant: the counts are added to what the object already carries.
UpdateStationAccumulating(station, departures, arrivals) ==
    LET id == station.short_name
        Old(f) == IF f \in DOMAIN station THEN station[f] ELSE 0
        arr == Old("arrivals") + GetOrZero(arrivals, id)
        dep == Old("departures") + GetOrZero(departures, id)
    IN  [f \in DOMAIN station \cup {"arrivals", "departures", "totalTraffic"} |->
            CASE f = "arrivals" -> arr
              [] f = "departures" -> dep
              [] f = "totalTraffic" -> arr + dep
              [] OTHER -> station[f]]

\* The body of stations.map at lines 93-99: the station object after the
\* three assignments (the same object is returned).
UpdateStation(station, departures, arrivals) ==
    LET id == station.short_name
        arr == GetOrZero(arrivals, id)
        dep == GetOrZero(departures, id)
    IN  [f \in DOMAIN station \cup {"arrivals", "departures", "totalTraffic"} |->
            CASE f = "arrivals" -> arr
              [] f = "departures" -> dep
              [] f = "totalTraffic" -> arr + dep
              [] OTHER -> station[f]]

\* Variant: the arrivals are grouped by the start station.
computeStationTrafficByStart(stationObjects, filter) ==
    LET Map(departures, arrivals) ==
            [i \in DOMAIN stationObjects |->
                UpdateStation(stationObjects[i], departures, arrivals)]
    IN  Map(Rollup(filterByMinute(departuresByMinute, filter), "start_station_id"),
            Rollup(filterByMinute(arrivalsByMinute, filter), "start_station_id"))

\* The objects computeStationTraffic returns; they are the objects of the
\* array it was given, so the caller's array holds the same values afterwards.
computeStationTraffic(stationObjects, filter) ==
    LET Map(departures, arrivals) ==
            [i \in DOMAIN stationObjects |->
                UpdateStation(stationObjects[i], departures, arrivals)]
    IN  Map(Rollup(filterByMinute(departuresByMinute, filter), "start_station_id"),
            Rollup(filterByMinute(arrivalsByMinute, filter), "end_station_id"))

\* radiusScale(totalTraffic) of d3.scaleSqrt().domain(domain).range(range),
\* in 1/Precision pixels. A domain of zero width maps everything to the
\* middle of the range, an undefined domain gives NaN.
radiusScale(domain, range, totalTraffic) ==
    LET span == (range[2] - range[1]) * Precision
    IN  IF domain[2] = NaN THEN NaN
        ELSE IF domain[2] = domain[1] THEN range[1] * Precision + span \div 2
        ELSE range[1] * Precision
             + ISqrt((totalTraffic * span * span) \div domain[2])

---------------------------------------------------------------------------
(* The row callback of d3.csv, lines 156-168 *)

\* The row object after lines 157-158; row is its position in the file.
TripOf(raw, n) ==
    [row |-> n,
     start_station_id |-> raw.start_station_id,
     end_station_id |-> raw.end_station_id,
     started_at |-> NewDate(raw.started_at),
     ended_at |-> NewDate(raw.ended_at)]

\* tripsByMinute[minute].push(trip)
Push(tripsByMinute, minute, trip) ==
    [tripsByMinute EXCEPT ![minute + 1] = Append(@, trip)]

\* tripsByMinute[minute] is undefined, so .push throws a TypeError
NoSlot(minute) == minute \notin 0 .. (MinutesPerDay - 1)

\* Lines 161-167 on the two bucket arrays: the arrays afterwards and whether
\* the callback threw.
IngestTrip(departures, arrivals, trip) ==
    LET startedMinutes == minutesSinceMidnight(trip.started_at)
        endedMinutes == minutesSinceMidnight(trip.ended_at)
    IN  IF NoSlot(startedMinutes)
        THEN [departures |-> departures, arrivals |-> arrivals, threw |-> TRUE]
        ELSE IF NoSlot(endedMinutes)
        THEN [departures |-> Push(departures, startedMinutes, trip),
              arrivals |-> arrivals, threw |-> TRUE]
        ELSE [departures |-> Push(departures, startedMinutes, trip),
              arrivals |-> Push(arrivals, endedMinutes, trip), threw |-> FALSE]

---------------------------------------------------------------------------
(* The map 'load' handler, lines 103-287 *)

Init ==
    /\ pc = "loadStations"
    /\ loadedStations = << >>
    /\ originalStations = << >>
    /\ departuresByMinute = EmptyBuckets
    /\ arrivalsByMinute = EmptyBuckets
    /\ rows = << >>
    /\ filteredStations = << >>
    /\ timeFilter = NoFilter
    /\ radiusDomain = << >>
    /\ radiusRange = << >>
    /\ circles = << >>
    /\ sliderBound = FALSE
    /\ queried = FALSE
    /\ loadFailed = FALSE
    /\ filtered = << >>

\* d3.json rejects: lines 144-146 log the error and return.
StationsLoadFails ==
    /\ pc = "loadStations"
    /\ pc' = "returned"
    /\ loadFailed' = TRUE
    /\ UNCHANGED <<loadedStations, originalStations, departuresByMinute,
                   arrivalsByMinute, rows, filteredStations, timeFilter,
                   radiusDomain, radiusRange, circles, sliderBound, queried,
                   filtered>>

\* d3.json resolves with a document that has no data.stations: line 150
\* throws a TypeError outside the try block and the handler ends there.
StationsUnusable ==
    /\ pc = "loadStations"
    /\ pc' = "rejected"
    /\ loadFailed' = TRUE
    /\ UNCHANGED <<loadedStations, originalStations, departuresByMinute,
                   arrivalsByMinute, rows, filteredStations, timeFilter,
                   radiusDomain, radiusRange, circles, sliderBound, queried,
                   filtered>>

\* d3.json resolves and line 150 reads jsonData.data.stations.
StationsLoaded ==
    /\ pc = "loadStations"
    /\ \E feed \in StationFeeds :
        /\ loadedStations' = feed
        /\ originalStations' = feed
    /\ pc' = "loadTrips"
    /\ UNCHANGED <<loadFailed, departuresByMinute, arrivalsByMinute, rows,
                   filteredStations, timeFilter, radiusDomain, radiusRange,
                   circles, sliderBound, queried, filtered>>

\* Variant: the rejection is caught and logged, and the handler goes on.
TripsLoadFailsCaught ==
    /\ pc = "loadTrips"
    /\ pc' = "parseTrips"
    /\ loadFailed' = TRUE
    /\ UNCHANGED <<loadedStations, originalStations, departuresByMinute,
                   arrivalsByMinute, rows, filteredStations, timeFilter,
                   radiusDomain, radiusRange, circles, sliderBound, queried,
                   filtered>>

\* d3.csv rejects before any row is parsed: the await at line 154 throws
\* and nothing catches it, so the handler ends there.
TripsLoadFails ==
    /\ pc = "loadTrips"
    /\ pc' = "rejected"
    /\ loadFailed' = TRUE
    /\ UNCHANGED <<loadedStations, originalStations, departuresByMinute,
                   arrivalsByMinute, rows, filteredStations, timeFilter,
                   radiusDomain, radiusRange, circles, sliderBound, queried,
                   filtered>>

\* The CSV text has arrived; d3.csv parses it row by row.
TripsFetched ==
    /\ pc = "loadTrips"
    /\ pc' = "parseTrips"
    /\ UNCHANGED <<loadFailed, loadedStations, originalStations, departuresByMinute,
                   arrivalsByMinute, rows, filteredStations, timeFilter,
                   radiusDomain, radiusRange, circles, sliderBound, queried,
                   filtered>>

\* The row callback on the next row of the file. When it throws, d3.csv
\* rejects and the await at line 154 throws as in TripsLoadFails.
RowCallback ==
    /\ pc = "parseTrips"
    /\ Len(rows) < MaxTrips
    /\ \E raw \in RowPool :
        LET trip == TripOf(raw, Len(rows) + 1)
            after == IngestTrip(departuresByMinute, arrivalsByMinute, trip)
        IN  /\ rows' = Append(rows, trip)
            /\ departuresByMinute' = after.departures
            /\ arrivalsByMinute' = after.arrivals
            /\ pc' = IF after.threw THEN "rejected" ELSE pc
            /\ loadFailed' = (loadFailed \/ after.threw)
    /\ UNCHANGED <<loadedStations, originalStations, filteredStations,
                   timeFilter, radiusDomain, radiusRange, circles, sliderBound,
                   queried, filtered>>

\* Every row is parsed and d3.csv resolves: lines 171-224 compute the
\* unfiltered traffic, build the radius scale and draw the circles.
DrawCircles ==
    /\ pc = "parseTrips"
    /\ \E result \in {computeStationTraffic(originalStations, NoFilter)} :
       LET domain == <<0, D3Max(result)>>
           range == <<0, RangeMaxAnyTime>>
       IN  /\ originalStations' = result
           /\ filteredStations' = result
           /\ radiusDomain' = domain
           /\ radiusRange' = range
           /\ circles' = [i \in DOMAIN result |->
                            radiusScale(domain, range, result[i].totalTraffic)]
    /\ timeFilter' = NoFilter
    /\ queried' = TRUE
    /\ pc' = "drawn"
    /\ UNCHANGED <<loadFailed, loadedStations, departuresByMinute, arrivalsByMinute, rows,
                   sliderBound, filtered>>

\* Variant: the domain follows the filtered traffic.
UpdateScatterPlotRescaled(filter) ==
    \E result \in {computeStationTraffic(originalStations, filter)} :
    LET range == IF filter = NoFilter
                 THEN <<0, RangeMaxAnyTime>>
                 ELSE <<RangeMinFiltered, RangeMaxFiltered>>
        domain == <<0, D3Max(result)>>
    IN  /\ originalStations' = result
        /\ filteredStations' = result
        /\ radiusDomain' = domain
        /\ radiusRange' = range
        /\ circles' = [i \in DOMAIN result |->
                         radiusScale(domain, range, result[i].totalTraffic)]
        /\ timeFilter' = filter
        /\ queried' = TRUE

\* updateScatterPlot(timeFilter), lines 232-266
UpdateScatterPlot(filter) ==
    \E result \in {computeStationTraffic(originalStations, filter)} :
    LET range == IF filter = NoFilter
                 THEN <<0, RangeMaxAnyTime>>
                 ELSE <<RangeMinFiltered, RangeMaxFiltered>>
    IN  /\ originalStations' = result
        /\ filteredStations' = result
        /\ radiusRange' = range
        /\ circles' = [i \in DOMAIN result |->
                         radiusScale(radiusDomain, range, result[i].totalTraffic)]
        /\ timeFilter' = filter
        /\ queried' = TRUE
        /\ UNCHANGED radiusDomain

\* Lines 285-286: bind the slider and call updateTimeDisplay() once with
\* whatever value the slider holds.
BindSlider ==
    /\ pc = "drawn"
    /\ sliderBound' = TRUE
    /\ \E value \in SliderValues : UpdateScatterPlot(value)
    /\ pc' = "ready"
    /\ UNCHANGED <<loadFailed, loadedStations, departuresByMinute, arrivalsByMinute, rows,
                   filtered>>

\* An 'input' event of the slider: updateTimeDisplay(), lines 269-282
SliderInput ==
    /\ pc = "ready"
    /\ sliderBound
    /\ \E value \in SliderValues : UpdateScatterPlot(value)
    /\ UNCHANGED <<loadFailed, pc, sliderBound, loadedStations, departuresByMinute,
                   arrivalsByMinute, rows, filtered>>

Next ==
    \/ StationsLoadFails
    \/ StationsUnusable
    \/ StationsLoaded
    \/ TripsLoadFails
    \/ TripsFetched
    \/ RowCallback
    \/ DrawCircles
    \/ BindSlider
    \/ SliderInput

Spec == Init /\ [][Next]_vars

---------------------------------------------------------------------------
(* filterByMinute on its own: buckets filled by the row callback from a    *)
(* bounded choice of rows, then one query with any filter on either array. *)

QueryPool ==
    { RawRow("A", "A", <<23, 50, 0>>, <<0, 50, 59>>),
      RawRow("B", "A", <<0, 50, 0>>, <<23, 30, 0>>),
      RawRow("B", "Z", <<3, 20, 0>>, <<3, 20, 59>>) }

\* The trips of a file and the bucket arrays after the row callback has run
\* on each of its rows.
RECURSIVE IngestAll(_)
IngestAll(raws) ==
    IF Len(raws) = 0
    THEN [departures |-> EmptyBuckets, arrivals |-> EmptyBuckets, trips |-> << >>]
    ELSE LET before == IngestAll(SubSeq(raws, 1, Len(raws) - 1))
             trip == TripOf(raws[Len(raws)], Len(raws))
             after == IngestTrip(before.departures, before.arrivals, trip)
         IN  [departures |-> after.departures, arrivals |-> after.arrivals,
              trips |-> Append(before.trips, trip)]

QueryInit ==
    /\ pc = "query"
    /\ \E n \in 0 .. MaxBucketTrips :
        \E raws \in [1 .. n -> QueryPool] :
            \E store \in {IngestAll(raws)} :
                /\ rows = store.trips
                /\ departuresByMinute = store.departures
                /\ arrivalsByMinute = store.arrivals
    /\ loadedStations = << >>
    /\ originalStations = << >>
    /\ filteredStations = << >>
    /\ timeFilter = NoFilter
    /\ radiusDomain = << >>
    /\ radiusRange = << >>
    /\ circles = << >>
    /\ sliderBound = FALSE
    /\ queried = FALSE
    /\ loadFailed = FALSE
    /\ filtered = << >>

Query ==
    /\ pc = "query"
    /\ \E minute \in NoFilter .. (MinutesPerDay - 1) :
        /\ timeFilter' = minute
        /\ \/ /\ filtered' = filterByMinute(departuresByMinute, minute)
              /\ pc' = "departures"
           \/ /\ filtered' = filterByMinute(arrivalsByMinute, minute)
              /\ pc' = "arrivals"
    /\ queried' = TRUE
    /\ UNCHANGED <<loadedStations, originalStations, departuresByMinute,
                   arrivalsByMinute, rows, filteredStations, radiusDomain,
                   radiusRange, circles, sliderBound, loadFailed>>

SpecQuery == QueryInit /\ [][Query]_vars

---------------------------------------------------------------------------
(* Vocabulary of the properties *)

StartSlot(trip) == trip.started_at.hours * 60 + trip.started_at.minutes
EndSlot(trip) == trip.ended_at.hours * 60 + trip.ended_at.minutes

AllSlots == 0 .. (MinutesPerDay - 1)

\* The 120 cyclically consecutive slots from minute - 60 on
WindowSlots(minute) ==
    IF minute = NoFilter THEN AllSlots
    ELSE { (minute - HalfWindow + k + MinutesPerDay) % MinutesPerDay :
              k \in 0 .. (2 * HalfWindow - 1) }

Occurrences(seq, x) == Cardinality({ i \in DOMAIN seq : seq[i] = x })

\* The slots of `slots` that hold at least one trip
Occupied(tripsByMinute, slots) ==
    { m \in slots : tripsByMinute[m + 1] # << >> }

\* How many times the slots of `slots` hold the trip
HeldIn(tripsByMinute, slots, trip) ==
    Cardinality({ place \in UNION { { <<m, j>> : j \in DOMAIN tripsByMinute[m + 1] } :
                                      m \in slots } :
                    tripsByMinute[place[1] + 1][place[2]] = trip })
Held(tripsByMinute, slots, trip) ==
    HeldIn(tripsByMinute, Occupied(tripsByMinute, slots), trip)

RECURSIVE SumOver(_, _)
SumOver(tripsByMinute, slots) ==
    IF slots = {} THEN 0
    ELSE LET m == CHOOSE x \in slots : TRUE
         IN  Len(tripsByMinute[m + 1]) + SumOver(tripsByMinute, slots \ {m})

\* The lengths of the slots of `slots` added up
SumLengths(tripsByMinute, slots) ==
    SumOver(tripsByMinute, Occupied(tripsByMinute, slots))
TotalLength(tripsByMinute) == SumLengths(tripsByMinute, AllSlots)

Trips == { rows[i] : i \in DOMAIN rows }
ParsedTrips == { t \in Trips : t.started_at.valid /\ t.ended_at.valid }
MalformedRows == Trips \ ParsedTrips

StationIds == { loadedStations[i].short_name : i \in DOMAIN loadedStations }

DeparturesOf(id, minute) ==
    Cardinality({ t \in Trips : /\ t.start_station_id = id
                                /\ StartSlot(t) \in WindowSlots(minute) })
ArrivalsOf(id, minute) ==
    Cardinality({ t \in Trips : /\ t.end_station_id = id
                                /\ EndSlot(t) \in WindowSlots(minute) })

RECURSIVE SumTotalTraffic(_)
SumTotalTraffic(records) ==
    IF Len(records) = 0 THEN 0
    ELSE Head(records).totalTraffic + SumTotalTraffic(Tail(records))

\* The handler is past line 174: traffic has been computed and drawn.
Served == pc \in {"drawn", "ready"}

AnyTimeRange == <<0, RangeMaxAnyTime>>
FilteredRange == <<RangeMinFiltered, RangeMaxFiltered>>

---------------------------------------------------------------------------
(* Properties *)

\* C1: computeStationTraffic never mutates the canonical station objects:
\* whatever calls were made, every object of the canonical list has exactly
\* the fields and values it had after load.
C1_CanonicalStationsUntouched == originalStations = loadedStations

\* C2: for every filter f in 0..1439, filterByMinute returns exactly the
\* trips held in the 120 cyclically consecutive slots (f-60+k) mod 1440,
\* k = 0..119, each once, and no trip of any other slot, also when the
\* window straddles midnight.
C2_WindowQuery ==
    (pc \in {"departures", "arrivals"} /\ timeFilter # NoFilter) =>
        \A window \in {WindowSlots(timeFilter)} :
        \A queriedArray \in {IF pc = "departures" THEN departuresByMinute
                              ELSE arrivalsByMinute} :
        \A occupied \in {Occupied(queriedArray, window)} :
            /\ Cardinality(window) = 2 * HalfWindow
            /\ (timeFilter - HalfWindow + MinutesPerDay) % MinutesPerDay \in window
            /\ (timeFilter + HalfWindow) % MinutesPerDay \notin window
            /\ \A j \in DOMAIN filtered : filtered[j] \in Trips
            /\ \A t \in Trips :
                Occurrences(filtered, t) = HeldIn(queriedArray, occupied, t)
            /\ Len(filtered) = SumOver(queriedArray, occupied)

C2_MidnightWindowReached ==
    /\ pc = "departures"
    /\ timeFilter = 30
    /\ \E t \in Trips : StartSlot(t) = 1430 /\ Occurrences(filtered, t) = 1
    /\ \E t \in Trips : StartSlot(t) = 50 /\ Occurrences(filtered, t) = 1
    /\ \E t \in Trips : StartSlot(t) = 200 /\ Occurrences(filtered, t) = 0

\* C3: every ingested trip is in exactly one slot of departuresByMinute (the
\* slot of its start time) and in exactly one slot of arrivalsByMinute (the
\* slot of its end time), and the slot lengths of each array add up to the
\* number of ingested trips.
C3_BucketCompleteness ==
    /\ \A t \in ParsedTrips :
        /\ Held(departuresByMinute, AllSlots, t) = 1
        /\ Held(departuresByMinute, {StartSlot(t)}, t) = 1
        /\ Held(arrivalsByMinute, AllSlots, t) = 1
        /\ Held(arrivalsByMinute, {EndSlot(t)}, t) = 1
    /\ TotalLength(departuresByMinute) = Cardinality(ParsedTrips)
    /\ TotalLength(arrivalsByMinute) = Cardinality(ParsedTrips)

\* C4: a row whose start or end timestamp cannot be parsed is skipped and
\* ingestion continues: the row is in neither bucket array, every
\* well-formed row is ingested and the batch is not aborted.
C4_MalformedRowSkipped ==
    /\ \A t \in MalformedRows :
        /\ Held(departuresByMinute, AllSlots, t) = 0
        /\ Held(arrivalsByMinute, AllSlots, t) = 0
    /\ \A t \in ParsedTrips :
        /\ Held(departuresByMinute, AllSlots, t) = 1
        /\ Held(arrivalsByMinute, AllSlots, t) = 1
    /\ MalformedRows # {} => (pc # "rejected" /\ ~loadFailed)

\* C5 as claimed: with no filter the totalTraffic values add up to exactly
\* twice the number of ingested trips.
C5_ConservationAsClaimed ==
    (Served /\ timeFilter = NoFilter) =>
        SumTotalTraffic(filteredStations) = 2 * Len(rows)

\* C5: with no filter the totalTraffic values add up to the number of
\* ingested trips whose start station is in the canonical list plus the
\* number whose end station is in it: twice the number of trips when every
\* trip starts and ends at a listed station, and less otherwise.
C5_Conservation ==
    (Served /\ timeFilter = NoFilter) =>
        LET known == Cardinality({ t \in Trips : t.start_station_id \in StationIds })
                     + Cardinality({ t \in Trips : t.end_station_id \in StationIds })
            allKnown == \A t \in Trips : /\ t.start_station_id \in StationIds
                                         /\ t.end_station_id \in StationIds
        IN  /\ SumTotalTraffic(filteredStations) = known
            /\ allKnown => SumTotalTraffic(filteredStations) = 2 * Len(rows)
            /\ ~allKnown => SumTotalTraffic(filteredStations) < 2 * Len(rows)

C5_UnknownStationCounted ==
    /\ pc = "ready"
    /\ timeFilter = NoFilter
    /\ Len(rows) = 2
    /\ Len(loadedStations) = 2
    /\ \E t \in Trips : t.end_station_id \notin StationIds
    /\ SumTotalTraffic(filteredStations) = 3

\* C6: computeStationTraffic returns one record per station of the
\* canonical list, in its order, with departures and arrivals the numbers of
\* trips of the window that start and end at the station (0 when none does)
\* and totalTraffic their sum; a trip at no listed station adds to no record.
C6_PerStationCounts ==
    Served =>
        /\ Len(filteredStations) = Len(loadedStations)
        /\ \A i \in DOMAIN filteredStations :
            LET record == filteredStations[i]
                id == loadedStations[i].short_name
            IN  /\ record.short_name = id
                /\ record.departures = DeparturesOf(id, timeFilter)
                /\ record.arrivals = ArrivalsOf(id, timeFilter)
                /\ record.totalTraffic = record.departures + record.arrivals

C6_ZeroAndUnknownReached ==
    /\ pc = "ready"
    /\ timeFilter = 260
    /\ Len(filteredStations) = 3
    /\ \E t \in Trips : t.end_station_id \notin StationIds /\ EndSlot(t) = 200
    /\ \E i \in DOMAIN filteredStations :
        /\ filteredStations[i].totalTraffic = 0
        /\ DeparturesOf(filteredStations[i].short_name, NoFilter) > 0
    /\ \E i \in DOMAIN filteredStations : filteredStations[i].departures > 0
    /\ filteredStations[1].short_name = "B"

\* C7: whatever filters the earlier calls had, the records the last
\* computeStationTraffic call returned are those a single call with the
\* last filter returns on a freshly loaded station list.
C7_NoCrossCallInterference ==
    Served => filteredStations = computeStationTraffic(loadedStations, timeFilter)

C7_SecondCallReached ==
    /\ pc = "ready"
    /\ timeFilter = 30
    /\ \E i \in DOMAIN filteredStations :
        /\ filteredStations[i].totalTraffic = 0
        /\ DeparturesOf(filteredStations[i].short_name, NoFilter) > 0
    /\ \E i \in DOMAIN filteredStations : filteredStations[i].totalTraffic > 0

\* C8: once the station load or the trip load has failed, there is no query,
\* no circle and no bound slider; and a query happens only after both loads
\* are complete with every trip in the buckets.
C8_LoadFailureIsTerminal ==
    /\ loadFailed =>
        /\ pc \in {"returned", "rejected"}
        /\ ~queried
        /\ circles = << >>
        /\ ~sliderBound
    /\ (queried \/ sliderBound \/ circles # << >>) =>
        /\ Served
        /\ ~loadFailed
        /\ \A t \in Trips :
            /\ Held(departuresByMinute, {StartSlot(t)}, t) = 1
            /\ Held(arrivalsByMinute, {EndSlot(t)}, t) = 1

C8_FailedAfterRows ==
    /\ loadFailed
    /\ pc = "rejected"
    /\ Len(rows) = 3
    /\ Len(loadedStations) = 2
    /\ ~queried

\* C9: after every slider update the range of the radius scale is [0, 25]
\* with no filter and [3, 50] with one, and its domain is [0, the largest
\* unfiltered totalTraffic], as set at the first computation.
C9_RadiusScale ==
    (pc = "ready") =>
        /\ radiusRange = IF timeFilter = NoFilter THEN AnyTimeRange
                         ELSE FilteredRange
        /\ radiusDomain[1] = 0
        /\ IF StationIds = {} THEN radiusDomain[2] = NaN
           ELSE /\ \A id \in StationIds :
                    DeparturesOf(id, NoFilter) + ArrivalsOf(id, NoFilter)
                        <= radiusDomain[2]
                /\ \E id \in StationIds :
                    DeparturesOf(id, NoFilter) + ArrivalsOf(id, NoFilter)
                        = radiusDomain[2]

C9_FilteredUpdateReached ==
    /\ pc = "ready"
    /\ timeFilter = 260
    /\ radiusRange = FilteredRange
    /\ radiusDomain[2] = 3
    /\ \A i \in DOMAIN filteredStations : filteredStations[i].totalTraffic <= 1
    /\ \E i \in DOMAIN filteredStations : filteredStations[i].totalTraffic = 1

\* C10: the filtered departures, arrivals and totalTraffic of a station are
\* at most its unfiltered ones, so every totalTraffic given to the radius
\* scale is in its domain and every drawn radius is in the active range.
C10_RadiusWithinRange ==
    Served =>
        /\ Len(circles) = Len(filteredStations)
        /\ \A i \in DOMAIN filteredStations :
            LET record == filteredStations[i]
                id == record.short_name
            IN  /\ record.departures <= DeparturesOf(id, NoFilter)
                /\ record.arrivals <= ArrivalsOf(id, NoFilter)
                /\ record.totalTraffic
                       <= DeparturesOf(id, NoFilter) + ArrivalsOf(id, NoFilter)
                /\ 0 <= record.totalTraffic
                /\ record.totalTraffic <= radiusDomain[2]
                /\ radiusRange[1] * Precision <= circles[i]
                /\ circles[i] <= radiusRange[2] * Precision
                /\ timeFilter = NoFilter => circles[i] <= RangeMaxAnyTime * Precision
                /\ timeFilter # NoFilter =>
                    /\ RangeMinFiltered * Precision <= circles[i]
                    /\ circles[i] <= RangeMaxFiltered * Precision

C10_FilteredRadiusReached ==
    /\ pc = "ready"
    /\ timeFilter = 30
    /\ \E i \in DOMAIN filteredStations :
        /\ 0 < filteredStations[i].totalTraffic
        /\ filteredStations[i].totalTraffic < radiusDomain[2]
        /\ RangeMinFiltered * Precision < circles[i]
        /\ circles[i] < RangeMaxFiltered * Precision
    /\ \E i \in DOMAIN filteredStations :
        filteredStations[i].totalTraffic = radiusDomain[2]

====
